---- MODULE Spec2Model ----
(***************************************************************************)
(* Model of the process-monitoring view of EdgeUtilities                   *)
(* (src/src/tabs/ProcessesTab.tsx): the refresh cycle, the carry-forward   *)
(* merge, the background correlation patch (get_cdp_urls), the auto-refresh*)
(* timer and the terminate action.                                         *)
(*                                                                         *)
(* Each asynchronous function is cut at its awaits: the code between two   *)
(* awaits runs to completion on the single JavaScript thread and is one    *)
(* action.  A state setter called with an updater is applied in call       *)
(* order, so it is modelled as an assignment inside the action calling it. *)
(***************************************************************************)
EXTENDS Integers, Sequences, FiniteSets, TLC

VARIABLES
    groups,          \* useState<ProcessGroup[]>: the published group list
    loading,         \* useState(true): the busy flag
    expandedGroups,  \* useState<Set<number>>: expanded browser pids
    statusMsg,       \* useState(""): the dismissible status message
    autoRefresh,     \* useState(localStorage "...auto-refresh" === "true")
    hiddenTypes,     \* useState(loadHiddenTypes)
    intervalRef,     \* useRef: handle of the interval, 0 for null
    timers,          \* handles of the intervals the runtime still fires
    cycles,          \* the calls of refresh(): <<[showLoading, pc]>> by start order
    termPending,     \* the pids of the terminate_process requests not yet settled
    timeouts,        \* setTimeout(() => refresh(false), 1000) not yet fired
    nTerm,           \* number of terminate requests made so far
    lastWrite,       \* history: "publish" or "patch", the last setGroups
    answer,          \* history: the get_cdp_urls answer of the last step
    built,           \* history: the get_edge_processes answer published last
    dropped,         \* history: the pids that left the list while holding a url
    before,          \* history: the list the answer of the last step was applied to
    input,           \* the argument of the function a specification applies
    output,          \* what the function returned, <<>> before it is applied
    mounted,         \* <ProcessesTab /> is rendered: selectedTab === "processes"
    repos            \* ReposTab: useState<Map<string, RepoState>> and its requests

hist == <<lastWrite, built, dropped>>
pure == <<input, output>>

vars == <<groups, loading, expandedGroups, statusMsg, autoRefresh, hiddenTypes,
          intervalRef, timers, cycles, termPending, timeouts, nTerm, hist, answer,
          before, pure, mounted, repos>>

----------------------------------------------------------------------------
(* Bounds of the exploration *)

\* refresh() is called at most this many times (the mount call included)
MaxCycles == 3
\* terminate is requested at most this many times
MaxTerminates == 1
\* an answer of get_cdp_urls holds at most this many entries over all its
\* ports, where the correlation patch is explored on its own
MaxEntries == 2
\* a group of the rendered list has at most this many members
MaxMembers == 3
\* a process snapshot given to the group builder holds the pids 1..MaxPids
\* or some of them
MaxPids == 3
\* a raw snapshot given to the classifier holds at most this many records
MaxRecords == 2
\* the list shown under the channel filters holds at most this many groups
MaxGroups == 2
\* the user starts at most this many loads in the repositories view
MaxLoads == 3

----------------------------------------------------------------------------
(* Values *)

\* process_id: number | null; null and 0 are both falsy in `p.process_id &&`
NullPid == 0
\* target_type: string | null
NullType == "<null>"

PortFlag == "--remote-debugging-port"

\* one element of cmd_args: the text key, or key=val when eq
Plain(s) == [key |-> s, eq |-> FALSE, val |-> ""]
KeyVal(k, v) == [key |-> k, eq |-> TRUE, val |-> v]

ProcessInfo(pid, type, args, mem) ==
    [pid |-> pid, process_type |-> type, cmd_args |-> args, memory_mb |-> mem,
     url |-> "", cdp_target_type |-> ""]

ProcessGroup(bpid, chan, itype, procs) ==
    [browser_pid |-> bpid, channel |-> chan, instance_type |-> itype,
     processes |-> procs]

----------------------------------------------------------------------------
(* Answers of the two backend commands.  The backend (get_edge_processes,  *)
(* get_cdp_urls) is outside the view: its answers are inputs, drawn from   *)
(* the sets below.                                                         *)

\* the Browser-role root of a group, with or without the debugging-port flag
RootProc(pid, type, port) ==
    ProcessInfo(pid, type,
                IF port = "none" THEN <<Plain("msedge.exe")>>
                ELSE <<Plain("msedge.exe"), KeyVal(PortFlag, port)>>,
                100)

ChildProc(pid, mem) ==
    ProcessInfo(pid, "Renderer", <<Plain("msedge.exe"), KeyVal("--type", "renderer")>>, mem)

\* group rooted at pid 1 (a Stable browser); k is "noport" or its port
Group1(k, has2) ==
    ProcessGroup(1, "Stable", "Stable",
        <<RootProc(1, "Browser", IF k = "noport" THEN "none" ELSE k)>>
        \o (IF has2 THEN <<ChildProc(2, 10)>> ELSE <<>>))

\* group rooted at pid 3 (a WebView2 host); k is "noport", its port, or
\* "nobrowser": no member has process_type "Browser"
Group3(k, has2) ==
    ProcessGroup(3, "Stable", "WebView2",
        <<RootProc(3, IF k = "nobrowser" THEN "Unknown" ELSE "Browser",
                   IF k = "noport" THEN "none" ELSE IF k = "nobrowser" THEN "9223" ELSE k)>>
        \o (IF has2 THEN <<ChildProc(2, 20)>> ELSE <<>>))

G1Kinds == {"absent", "noport", "9222"}
G3Kinds == {"absent", "noport", "9223", "nobrowser"}

\* all the group lists of the two groups: groups by ascending root pid, pids
\* unique, pid 2 a child of either group or absent
AllSnapshots ==
    { (IF k1 = "absent" THEN <<>> ELSE <<Group1(k1, c2 = "g1")>>)
      \o (IF k3 = "absent" THEN <<>> ELSE <<Group3(k3, c2 = "g3")>>) :
        <<k1, k3, c2>> \in
            { t \in G1Kinds \X G3Kinds \X {"absent", "g1", "g3"} :
                /\ t[3] = "g1" => t[1] # "absent"
                /\ t[3] = "g3" => t[2] # "absent" } }

\* get_edge_processes answers of the refresh cycles: no process; the browser
\* alone, with and without its renderer and its port; the browser and a
\* WebView2 host, pid 2 moving from one to the other
Snapshots ==
    { <<>>,
      <<Group1("9222", TRUE)>>,
      <<Group1("9222", FALSE)>>,
      <<Group1("noport", TRUE)>>,
      <<Group1("9222", TRUE), Group3("9223", FALSE)>>,
      <<Group1("9222", FALSE), Group3("9223", TRUE)>>,
      <<Group1("9222", FALSE), Group3("noport", TRUE)>>,
      <<Group1("9222", TRUE), Group3("nobrowser", FALSE)>> }

Ports == {"9222", "9223"}

CdpEntry(pid, url, tt) == [process_id |-> pid, url |-> url, target_type |-> tt]

\* entries for pid 2, pid 3 and for no process, over three (url, type) pairs
CdpEntries ==
    { CdpEntry(pid, u[1], u[2]) :
        pid \in {NullPid, 2, 3},
        u \in { <<"u1", "page">>, <<"u2", NullType>>, <<"", "page">> } }

RECURSIVE SeqsUpTo(_, _)
SeqsUpTo(S, n) ==
    IF n = 0 THEN {<<>>}
    ELSE LET shorter == SeqsUpTo(S, n - 1)
         IN shorter \cup { Append(q, e) : q \in shorter, e \in S }

RECURSIVE SumLen(_, _)
SumLen(m, keys) ==
    IF keys = {} THEN 0
    ELSE LET k == CHOOSE x \in keys : TRUE
         IN Len(m[k]) + SumLen(m, keys \ {k})

\* all answers of get_cdp_urls, Record<port, entries[]>, with at most
\* MaxEntries entries, possibly with no key
AllPortMaps ==
    UNION { { m \in [K -> SeqsUpTo(CdpEntries, MaxEntries)] : SumLen(m, K) <= MaxEntries } :
            K \in SUBSET Ports }

\* an answer without keys
NoAnswer == [p \in {} |-> <<>>]

\* get_cdp_urls answers of the refresh cycles: no key; port 9222 without
\* entry; one entry for pid 2 (two different pages); an entry for pid 3 on
\* port 9223; both ports; an unattributed entry before one for pid 2
PortMaps ==
    { NoAnswer,
      [p \in {"9222"} |-> <<>>],
      [p \in {"9222"} |-> <<CdpEntry(2, "u1", "page")>>],
      [p \in {"9222"} |-> <<CdpEntry(2, "u2", NullType)>>],
      [p \in {"9223"} |-> <<CdpEntry(3, "u1", "page")>>],
      [p \in Ports |-> IF p = "9222" THEN <<CdpEntry(2, "u1", "page")>>
                       ELSE <<CdpEntry(2, "u2", NullType)>>],
      [p \in {"9222"} |-> <<CdpEntry(NullPid, "u2", NullType), CdpEntry(2, "u1", "page")>>] }

----------------------------------------------------------------------------
(* refresh: the carry-forward merge, setGroups((prev) => ...) of line 87   *)

RECURSIVE Flatten(_)
\* for (const g of prev) for (const p of g.processes): the visiting order
Flatten(gs) ==
    IF gs = <<>> THEN <<>> ELSE Head(gs).processes \o Flatten(Tail(gs))

\* if (p.url) urlMap.set(p.pid, ...): a later set of the same pid wins
UrlMapHas(flat, pid) ==
    \E i \in 1..Len(flat) : flat[i].pid = pid /\ flat[i].url # ""

UrlMapGet(flat, pid) ==
    LET i == CHOOSE j \in 1..Len(flat) :
                 /\ flat[j].pid = pid /\ flat[j].url # ""
                 /\ \A k \in (j + 1)..Len(flat) : ~(flat[k].pid = pid /\ flat[k].url # "")
    IN [url |-> flat[i].url, cdp_target_type |-> flat[i].cdp_target_type]

\* variant: the url is carried, the target type is not
CarryProcUrlOnly(flat, proc) ==
    IF UrlMapHas(flat, proc.pid)
    THEN [proc EXCEPT !.url = UrlMapGet(flat, proc.pid).url]
    ELSE proc

\* variant: the whole previous record is published in place of the new one
CarryProcWholeRecord(flat, proc) ==
    IF UrlMapHas(flat, proc.pid)
    THEN flat[CHOOSE j \in 1..Len(flat) :
                 /\ flat[j].pid = proc.pid /\ flat[j].url # ""
                 /\ \A k \in (j + 1)..Len(flat) : ~(flat[k].pid = proc.pid /\ flat[k].url # "")]
    ELSE proc

\* prev ? { ...proc, url: prev.url, cdp_target_type: prev.cdp_target_type } : proc
CarryProc(flat, proc) ==
    IF UrlMapHas(flat, proc.pid)
    THEN [proc EXCEPT !.url = UrlMapGet(flat, proc.pid).url,
                      !.cdp_target_type = UrlMapGet(flat, proc.pid).cdp_target_type]
    ELSE proc

\* variant: the groups of prev that data lacks are kept after the new ones
CarryForwardKeepsGone(prev, data) ==
    LET flat == Flatten(prev)
        roots == { data[g].browser_pid : g \in 1..Len(data) }
    IN [g \in 1..Len(data) |->
          [data[g] EXCEPT !.processes =
              [i \in 1..Len(data[g].processes) |-> CarryProc(flat, data[g].processes[i])]]]
       \o SelectSeq(prev, LAMBDA old : old.browser_pid \notin roots)

\* data.map((group) => ({ ...group, processes: group.processes.map(...) }))
CarryForward(prev, data) ==
    LET flat == Flatten(prev)
    IN [g \in 1..Len(data) |->
          [data[g] EXCEPT !.processes =
              [i \in 1..Len(data[g].processes) |-> CarryProc(flat, data[g].processes[i])]]]

\* data.filter((g) => g.instance_type !== "WebView2").map((g) => g.browser_pid)
AutoExpand(data) ==
    { data[g].browser_pid : g \in { h \in 1..Len(data) : data[h].instance_type # "WebView2" } }

----------------------------------------------------------------------------
(* refresh: the correlation patch, setGroups((prev) => ...) of line 114    *)

\* Array.prototype.find over a set of matching indices: the first index,
\* 0 when nothing matches (find returns undefined)
FirstOf(matching) ==
    IF matching = {} THEN 0
    ELSE CHOOSE i \in matching : \A j \in matching : i <= j

IsBrowser(p) == p.process_type = "Browser"

\* a.startsWith("--remote-debugging-port=")
IsPortArg(a) == a.key = PortFlag /\ a.eq

\* group.processes.find((p) => p.process_type === "Browser")
FirstBrowser(procs) == FirstOf({ i \in 1..Len(procs) : IsBrowser(procs[i]) })

\* browser.cmd_args.find((a) => a.startsWith("--remote-debugging-port="))
FirstPortArg(args) == FirstOf({ i \in 1..Len(args) : IsPortArg(args[i]) })

\* variant: an entry without process id matches every record
FirstMatchNullMatches(pages, pid) ==
    FirstOf({ i \in 1..Len(pages) :
                pages[i].process_id = NullPid \/ pages[i].process_id = pid })

\* pages.find((p) => p.process_id && p.process_id === proc.pid)
FirstMatch(pages, pid) ==
    FirstOf({ i \in 1..Len(pages) :
                pages[i].process_id # NullPid /\ pages[i].process_id = pid })

\* match.target_type ?? ""
OrEmpty(tt) == IF tt = NullType THEN "" ELSE tt

\* variant: the port argument of the first member that has one, whatever
\* its role
GroupPortAnyMember(group) ==
    LET procs == group.processes
        b == FirstOf({ i \in 1..Len(procs) : FirstPortArg(procs[i].cmd_args) # 0 })
    IN IF b = 0 THEN ""
       ELSE LET args == procs[b].cmd_args
            IN args[FirstPortArg(args)].val

\* the port of a group: portArg?.split("=")[1]; "" when there is no
\* Browser member or no port argument (both make the code return the group)
GroupPort(group) ==
    LET b == FirstBrowser(group.processes)
    IN IF b = 0 THEN ""
       ELSE LET args == group.processes[b].cmd_args
                a == FirstPortArg(args)
            IN IF a = 0 THEN "" ELSE args[a].val

\* variant: the matched record is rebuilt without the sampled memory
PatchProcRebuilds(pages, proc) ==
    LET m == FirstMatch(pages, proc.pid)
    IN IF m # 0 /\ (pages[m].url # proc.url
                    \/ OrEmpty(pages[m].target_type) # proc.cdp_target_type)
       THEN [proc EXCEPT !.url = pages[m].url,
                         !.cdp_target_type = OrEmpty(pages[m].target_type),
                         !.memory_mb = 0]
       ELSE proc

\* variant: the url is replaced, the target type is left as it was
PatchProcUrlOnly(pages, proc) ==
    LET m == FirstMatch(pages, proc.pid)
    IN IF m # 0 /\ pages[m].url # proc.url
       THEN [proc EXCEPT !.url = pages[m].url]
       ELSE proc

\* variant: a record that already holds a url is not patched
PatchProcKeepsCarried(pages, proc) ==
    LET m == FirstMatch(pages, proc.pid)
    IN IF m # 0 /\ proc.url = ""
       THEN [proc EXCEPT !.url = pages[m].url,
                         !.cdp_target_type = OrEmpty(pages[m].target_type)]
       ELSE proc

\* variant: the match is the first entry for the pid that differs from the
\* record
PatchProcNextDiffering(pages, proc) ==
    LET m == FirstOf({ i \in 1..Len(pages) :
                         /\ pages[i].process_id # NullPid /\ pages[i].process_id = proc.pid
                         /\ (pages[i].url # proc.url
                             \/ OrEmpty(pages[i].target_type) # proc.cdp_target_type) })
    IN IF m # 0
       THEN [proc EXCEPT !.url = pages[m].url,
                         !.cdp_target_type = OrEmpty(pages[m].target_type)]
       ELSE proc

\* the body of group.processes.map((proc) => ...): the first match, then the
\* replacement of url and cdp_target_type when one of them differs
PatchProc(pages, proc) ==
    LET m == FirstMatch(pages, proc.pid)
    IN IF m # 0 /\ (pages[m].url # proc.url
                    \/ OrEmpty(pages[m].target_type) # proc.cdp_target_type)
       THEN [proc EXCEPT !.url = pages[m].url,
                         !.cdp_target_type = OrEmpty(pages[m].target_type)]
       ELSE proc

\* variant: a group whose port has no data loses its urls
PatchGroupClearsOnNoData(portMap, group) ==
    LET port == GroupPort(group)
    IN IF port = "" THEN group
       ELSE IF port \notin DOMAIN portMap
       THEN [group EXCEPT !.processes =
                [i \in 1..Len(group.processes) |->
                    [group.processes[i] EXCEPT !.url = "", !.cdp_target_type = ""]]]
       ELSE [group EXCEPT !.processes =
                [i \in 1..Len(group.processes) |-> PatchProc(portMap[port], group.processes[i])]]

\* the body of prev.map((group) => ...)
PatchGroup(portMap, group) ==
    LET port == GroupPort(group)
    IN IF port = "" \/ port \notin DOMAIN portMap THEN group
       ELSE [group EXCEPT !.processes =
                [i \in 1..Len(group.processes) |-> PatchProc(portMap[port], group.processes[i])]]

\* the whole .then((portMap) => ...): nothing without a key, else the patch
ApplyCdp(prev, portMap) ==
    IF DOMAIN portMap = {} THEN prev
    ELSE [g \in 1..Len(prev) |-> PatchGroup(portMap, prev[g])]

\* the flag `changed` of the updater: some group with data for its port has
\* a member whose match differs from it; the updater returns prev, the list
\* object it was given, when the flag is down
Changed(prev, portMap) ==
    /\ DOMAIN portMap # {}
    /\ \E g \in 1..Len(prev) :
           /\ GroupPort(prev[g]) # ""
           /\ GroupPort(prev[g]) \in DOMAIN portMap
           /\ \E i \in 1..Len(prev[g].processes) :
                  LET pages == portMap[GroupPort(prev[g])]
                      proc == prev[g].processes[i]
                      m == FirstMatch(pages, proc.pid)
                  IN m # 0 /\ (pages[m].url # proc.url
                               \/ OrEmpty(pages[m].target_type) # proc.cdp_target_type)

----------------------------------------------------------------------------
(* The view *)

\* getGroupLabel
getGroupLabel(group) ==
    IF group.instance_type = "WebView2" THEN "WebView2"
    ELSE IF group.instance_type = "Copilot" THEN "Copilot"
    ELSE group.channel

\* variant: a group is hidden by its own label only
IsShownLabelOnly(group) == getGroupLabel(group) \notin hiddenTypes

\* the predicate of groups.filter(...) in the render, line 331
IsShown(group) ==
    LET label == getGroupLabel(group)
    IN /\ label \notin hiddenTypes
       /\ ~(label \notin {"WebView2", "Copilot", "Beta", "Dev", "Canary", "Internal"}
            /\ "Stable" \in hiddenTypes)

\* the groups that have a header on screen: none while the spinner is shown
ShownGroups == IF loading THEN {} ELSE { g \in 1..Len(groups) : IsShown(groups[g]) }

\* the pids that have a Terminate button: members of shown, expanded groups
ActionPids ==
    UNION { { groups[g].processes[i].pid : i \in 1..Len(groups[g].processes) } :
            g \in { h \in ShownGroups : groups[h].browser_pid \in expandedGroups } }

\* the pids of a group list, and those holding a url
Pids(list) == { p.pid : p \in { Flatten(list)[i] : i \in 1..Len(Flatten(list)) } }
UrlPids(list) ==
    { p.pid : p \in { q \in { Flatten(list)[i] : i \in 1..Len(Flatten(list)) } : q.url # "" } }

\* the cycles still waiting for get_edge_processes / for get_cdp_urls
AwaitingSnapshot == { n \in 1..Len(cycles) : cycles[n].pc = "snap" }
AwaitingCdp == { n \in 1..Len(cycles) : cycles[n].pc = "cdp" }

\* a call of refresh(showLoading) that has reached its first await
NewCycle(showLoading, trigger) ==
    [showLoading |-> showLoading, trigger |-> trigger, pc |-> "snap", events |-> <<>>]

\* variant: the request is made before the list is published
SnapshotOkEventsSwapped == <<"cdp_request", "publish">>

\* the effects of lines 87-111 in program order: setGroups, then the request
\* invoke("get_cdp_urls")
SnapshotOkEvents == <<"publish", "cdp_request">>

Init ==
    /\ groups = <<>>
    /\ loading = TRUE
    /\ expandedGroups = {}
    /\ statusMsg = ""
    /\ autoRefresh \in BOOLEAN
    /\ hiddenTypes = {"WebView2"}
    \* the effect of line 151 has run once: an interval iff autoRefresh
    /\ intervalRef = IF autoRefresh THEN 1 ELSE 0
    /\ timers = IF autoRefresh THEN {1} ELSE {}
    \* the effect of line 147 has called refresh()
    /\ cycles = <<NewCycle(TRUE, "mount")>>
    /\ termPending = <<>>
    /\ timeouts = 0
    /\ nTerm = 0
    /\ lastWrite = "none"
    /\ answer = NoAnswer
    /\ built = <<>>
    /\ dropped = {}
    /\ before = <<>>
    /\ input = <<>>
    /\ output = <<>>
    /\ mounted = TRUE
    /\ repos = <<>>

\* refresh(showLoading) up to its await of get_edge_processes
StartRefresh(showLoading, trigger) ==
    /\ Len(cycles) < MaxCycles
    /\ loading' = IF showLoading THEN TRUE ELSE loading
    /\ cycles' = Append(cycles, NewCycle(showLoading, trigger))

\* the Refresh button: onClick={() => refresh()}
ManualRefresh ==
    /\ mounted /\ ~loading
    /\ StartRefresh(TRUE, "manual")
    /\ UNCHANGED <<groups, expandedGroups, statusMsg, autoRefresh, hiddenTypes,
                   intervalRef, timers, termPending, timeouts, nTerm, hist, answer,
                   before, pure, mounted, repos>>

\* setInterval(() => refresh(false), 5000) fires
TimerTick ==
    /\ timers # {}
    /\ StartRefresh(FALSE, "timer")
    /\ UNCHANGED <<groups, expandedGroups, statusMsg, autoRefresh, hiddenTypes,
                   intervalRef, timers, termPending, timeouts, nTerm, hist, answer,
                   before, pure, mounted, repos>>

\* setTimeout(() => refresh(false), 1000) of handleTerminate fires
TimeoutFire ==
    /\ timeouts > 0
    /\ timeouts' = timeouts - 1
    /\ StartRefresh(FALSE, "timeout")
    /\ UNCHANGED <<groups, expandedGroups, statusMsg, autoRefresh, hiddenTypes,
                   intervalRef, timers, termPending, nTerm, hist, answer,
                   before, pure, mounted, repos>>

\* variant: the busy flag is left to the correlator's callback
SnapshotOkKeepsBusy(n, data) ==
    /\ cycles[n].pc = "snap"
    /\ groups' = CarryForward(groups, data)
    /\ expandedGroups' = IF cycles[n].showLoading THEN AutoExpand(data) ELSE expandedGroups
    /\ cycles' = [cycles EXCEPT ![n].pc = "cdp", ![n].events = @ \o SnapshotOkEvents]
    /\ lastWrite' = "publish"
    /\ built' = data
    /\ dropped' = dropped \cup (UrlPids(groups) \ Pids(data))
    /\ UNCHANGED <<loading, statusMsg, autoRefresh, hiddenTypes, intervalRef, timers,
                   termPending, timeouts, nTerm, answer, before, pure, mounted, repos>>

\* get_edge_processes resolves with data: lines 87-111 and 144
SnapshotOk(n, data) ==
    /\ cycles[n].pc = "snap"
    /\ groups' = CarryForward(groups, data)
    /\ expandedGroups' = IF cycles[n].showLoading THEN AutoExpand(data) ELSE expandedGroups
    /\ cycles' = [cycles EXCEPT ![n].pc = "cdp", ![n].events = @ \o SnapshotOkEvents]
    /\ loading' = IF cycles[n].showLoading THEN FALSE ELSE loading
    /\ lastWrite' = "publish"
    /\ built' = data
    /\ dropped' = dropped \cup (UrlPids(groups) \ Pids(data))
    /\ UNCHANGED <<statusMsg, autoRefresh, hiddenTypes, intervalRef, timers,
                   termPending, timeouts, nTerm, answer, before, pure, mounted, repos>>

\* variant: the failure clears the view
SnapshotFailClears(n) ==
    /\ cycles[n].pc = "snap"
    /\ cycles' = [cycles EXCEPT ![n].pc = "snapfail"]
    /\ loading' = IF cycles[n].showLoading THEN FALSE ELSE loading
    /\ groups' = <<>>
    /\ UNCHANGED <<expandedGroups, statusMsg, autoRefresh, hiddenTypes,
                   intervalRef, timers, termPending, timeouts, nTerm, hist, answer,
                   before, pure, mounted, repos>>

\* variant: the spinner is hidden whatever the trigger
SnapshotFailHidesSpinner(n) ==
    /\ cycles[n].pc = "snap"
    /\ cycles' = [cycles EXCEPT ![n].pc = "snapfail"]
    /\ loading' = FALSE
    /\ UNCHANGED <<groups, expandedGroups, statusMsg, autoRefresh, hiddenTypes,
                   intervalRef, timers, termPending, timeouts, nTerm, hist, answer,
                   before, pure, mounted, repos>>

\* get_edge_processes rejects: the catch of line 141, then line 144
SnapshotFail(n) ==
    /\ cycles[n].pc = "snap"
    /\ cycles' = [cycles EXCEPT ![n].pc = "snapfail"]
    /\ loading' = IF cycles[n].showLoading THEN FALSE ELSE loading
    /\ UNCHANGED <<groups, expandedGroups, statusMsg, autoRefresh, hiddenTypes,
                   intervalRef, timers, termPending, timeouts, nTerm, hist, answer,
                   before, pure, mounted, repos>>

\* get_cdp_urls resolves: the .then callback of line 111; the answer is
\* recorded in `answer` by the specification that observes it
CdpResolve(n, portMap) ==
    /\ cycles[n].pc = "cdp"
    /\ groups' = ApplyCdp(groups, portMap)
    /\ cycles' = [cycles EXCEPT ![n].pc = "done", ![n].events = Append(@, "patch")]
    /\ lastWrite' = "patch"
    /\ UNCHANGED <<loading, expandedGroups, statusMsg, autoRefresh, hiddenTypes,
                   intervalRef, timers, termPending, timeouts, nTerm, built, dropped,
                   pure, mounted, repos>>

CdpOk(n, portMap) == CdpResolve(n, portMap) /\ UNCHANGED <<answer, before>>

\* get_cdp_urls rejects: .catch(() => {}) of line 140
CdpFail(n) ==
    /\ cycles[n].pc = "cdp"
    /\ cycles' = [cycles EXCEPT ![n].pc = "cdpfail"]
    /\ UNCHANGED <<groups, loading, expandedGroups, statusMsg, autoRefresh, hiddenTypes,
                   intervalRef, timers, termPending, timeouts, nTerm, hist, answer,
                   before, pure, mounted, repos>>

\* the Auto-refresh switch, and the effect of line 151 that follows the
\* render: the cleanup of the previous run, then the new run
ToggleAutoRefresh ==
    /\ mounted /\ ~loading
    /\ autoRefresh' = ~autoRefresh
    /\ LET cleaned == IF intervalRef # 0 THEN timers \ {intervalRef} ELSE timers
           fresh == CHOOSE id \in 1..(Cardinality(cleaned) + 1) : id \notin cleaned
       IN IF autoRefresh'
          THEN intervalRef' = fresh /\ timers' = cleaned \cup {fresh}
          ELSE IF intervalRef # 0
               THEN intervalRef' = 0 /\ timers' = cleaned \ {intervalRef}
               ELSE intervalRef' = intervalRef /\ timers' = cleaned
    /\ UNCHANGED <<groups, loading, expandedGroups, statusMsg, hiddenTypes,
                   cycles, termPending, timeouts, nTerm, hist, answer,
                   before, pure, mounted, repos>>

\* toggleGroup(pid), from the header of a shown group
ToggleGroup(pid) ==
    /\ mounted
    /\ \E g \in ShownGroups : groups[g].browser_pid = pid
    /\ expandedGroups' = IF pid \in expandedGroups THEN expandedGroups \ {pid}
                         ELSE expandedGroups \cup {pid}
    /\ UNCHANGED <<groups, loading, statusMsg, autoRefresh, hiddenTypes, intervalRef,
                   timers, cycles, termPending, timeouts, nTerm, hist, answer,
                   before, pure, mounted, repos>>

\* a sequence without its i-th element
Without(seq, i) == [j \in 1..(Len(seq) - 1) |-> IF j < i THEN seq[j] ELSE seq[j + 1]]

\* what terminate_process answers, and the errors it rejects with
TerminateResults == {"Process terminated"}
TerminateErrors == {"Access denied"}

\* handleTerminate(pid) up to its await of terminate_process: the request
\* carries the pid and nothing else
Terminate(pid) ==
    /\ mounted /\ pid \in ActionPids
    /\ nTerm < MaxTerminates
    /\ nTerm' = nTerm + 1
    /\ termPending' = Append(termPending, pid)
    /\ UNCHANGED <<groups, loading, expandedGroups, statusMsg, autoRefresh, hiddenTypes,
                   intervalRef, timers, cycles, timeouts, hist, answer,
                   before, pure, mounted, repos>>

\* terminate_process resolves: setStatusMsg(result); setTimeout(...)
TerminateOk(i, result) ==
    /\ termPending' = Without(termPending, i)
    /\ statusMsg' = result
    /\ timeouts' = timeouts + 1
    /\ UNCHANGED <<groups, loading, expandedGroups, autoRefresh, hiddenTypes,
                   intervalRef, timers, cycles, nTerm, hist, answer,
                   before, pure, mounted, repos>>

\* variant: the list is refreshed after a failure too
TerminateFailRefreshes(i, err) ==
    /\ termPending' = Without(termPending, i)
    /\ statusMsg' = "Error: " \o err
    /\ timeouts' = timeouts + 1
    /\ UNCHANGED <<groups, loading, expandedGroups, autoRefresh, hiddenTypes,
                   intervalRef, timers, cycles, nTerm, hist, answer,
                   before, pure, mounted, repos>>

\* terminate_process rejects: setStatusMsg(`Error: ${err}`)
TerminateFail(i, err) ==
    /\ termPending' = Without(termPending, i)
    /\ statusMsg' = "Error: " \o err
    /\ UNCHANGED <<groups, loading, expandedGroups, autoRefresh, hiddenTypes,
                   intervalRef, timers, cycles, timeouts, nTerm, hist, answer,
                   before, pure, mounted, repos>>

\* the Dismiss button of the status card: setStatusMsg("")
Dismiss ==
    /\ mounted /\ ~loading
    /\ statusMsg # ""
    /\ statusMsg' = ""
    /\ UNCHANGED <<groups, loading, expandedGroups, autoRefresh, hiddenTypes,
                   intervalRef, timers, cycles, termPending, timeouts, nTerm, hist, answer,
                   before, pure, mounted, repos>>

\* the refresh cycles under the three triggers of the toolbar and the timer
Next ==
    \/ ManualRefresh
    \/ TimerTick
    \/ \E n \in AwaitingSnapshot, data \in Snapshots : SnapshotOk(n, data)
    \/ \E n \in AwaitingSnapshot : SnapshotFail(n)
    \/ \E n \in AwaitingCdp, portMap \in PortMaps : CdpOk(n, portMap)
    \/ \E n \in AwaitingCdp : CdpFail(n)
    \/ ToggleAutoRefresh
    \/ \E pid \in {1, 3} : ToggleGroup(pid)

Spec == Init /\ [][Next]_vars

\* the answers drawn when the terminate action and the status message are
\* explored together with the refresh cycles; the switch and the group
\* headers are left as the mount set them
SnapshotsTerm == { <<>>, <<Group1("9222", TRUE)>>, <<Group1("9222", FALSE)>> }
PortMapsTerm == { NoAnswer, [p \in {"9222"} |-> <<CdpEntry(2, "u1", "page")>>] }

NextTerm ==
    \/ ManualRefresh
    \/ TimerTick
    \/ TimeoutFire
    \/ \E n \in AwaitingSnapshot, data \in SnapshotsTerm : SnapshotOk(n, data)
    \/ \E n \in AwaitingSnapshot : SnapshotFail(n)
    \/ \E n \in AwaitingCdp, portMap \in PortMapsTerm : CdpOk(n, portMap)
    \/ \E n \in AwaitingCdp : CdpFail(n)
    \/ \E pid \in 1..3 : Terminate(pid)
    \/ \E i \in 1..Len(termPending), result \in TerminateResults : TerminateOk(i, result)
    \/ \E i \in 1..Len(termPending), err \in TerminateErrors : TerminateFail(i, err)
    \/ Dismiss

SpecTerm == Init /\ [][NextTerm]_vars

----------------------------------------------------------------------------
(* The auto-refresh timer over the life of the view.  App.tsx renders the   *)
(* tab only while it is selected, so selecting another tab unmounts the     *)
(* view and selecting it again mounts a new instance: its state comes from  *)
(* the useState initialisers, the switch from localStorage.                 *)

\* the calls of refresh() of an instance that is unmounted: their state
\* setters have no instance to write to
Orphaned(cycle) ==
    IF cycle.pc \in {"snap", "cdp"} THEN [cycle EXCEPT !.pc = "gone"] ELSE cycle

\* variant: the effect has no cleanup, the interval outlives the view
UnmountKeepsTimer ==
    /\ mounted
    /\ mounted' = FALSE
    /\ cycles' = [n \in 1..Len(cycles) |-> Orphaned(cycles[n])]
    /\ UNCHANGED <<groups, loading, expandedGroups, statusMsg, autoRefresh, hiddenTypes,
                   intervalRef, timers, termPending, timeouts, nTerm, hist, answer,
                   before, pure, repos>>

\* another tab is selected: the cleanup of the effect of line 151 runs
\* (lines 158-160), which clears the interval and leaves the ref as it is
Unmount ==
    /\ mounted
    /\ mounted' = FALSE
    /\ timers' = IF intervalRef # 0 THEN timers \ {intervalRef} ELSE timers
    /\ cycles' = [n \in 1..Len(cycles) |-> Orphaned(cycles[n])]
    /\ UNCHANGED <<groups, loading, expandedGroups, statusMsg, autoRefresh, hiddenTypes,
                   intervalRef, termPending, timeouts, nTerm, hist, answer,
                   before, pure, repos>>

\* the tab is selected again: the initialisers of lines 67-80, then the
\* effects of lines 147 and 151; the switch was stored by its last change
Mount ==
    /\ ~mounted
    /\ mounted' = TRUE
    /\ groups' = <<>>
    /\ expandedGroups' = {}
    /\ statusMsg' = ""
    /\ LET fresh == CHOOSE id \in 1..(Cardinality(timers) + 1) : id \notin timers
       IN /\ intervalRef' = IF autoRefresh THEN fresh ELSE 0
          /\ timers' = IF autoRefresh THEN timers \cup {fresh} ELSE timers
    /\ StartRefresh(TRUE, "mount")
    /\ lastWrite' = "none"
    /\ built' = <<>>
    /\ dropped' = {}
    /\ UNCHANGED <<autoRefresh, hiddenTypes, termPending, timeouts, nTerm, answer,
                   before, pure, repos>>

NextTimer ==
    \/ Mount
    \/ Unmount
    \/ ToggleAutoRefresh
    \/ TimerTick
    \/ \E n \in AwaitingSnapshot, data \in SnapshotsTerm : SnapshotOk(n, data)
    \/ \E n \in AwaitingSnapshot : SnapshotFail(n)
    \/ \E n \in AwaitingCdp, portMap \in PortMapsTerm : CdpOk(n, portMap)
    \/ \E n \in AwaitingCdp : CdpFail(n)

SpecTimer == Init /\ [][NextTimer]_vars

----------------------------------------------------------------------------
(* The busy flag under fair settling: a request made through invoke() is    *)
(* answered by the backend with a result or an error, so a cycle that       *)
(* awaits get_edge_processes does not await it for ever.                    *)

\* the await of line 86 of cycle n returns or throws
Settle(n) ==
    /\ n \in AwaitingSnapshot
    /\ \/ \E data \in SnapshotsTerm : SnapshotOk(n, data)
       \/ SnapshotFail(n)

NextBusy ==
    \/ ManualRefresh
    \/ TimerTick
    \/ \E n \in 1..MaxCycles : Settle(n)
    \/ \E n \in AwaitingCdp, portMap \in PortMapsTerm : CdpOk(n, portMap)
    \/ \E n \in AwaitingCdp : CdpFail(n)

SpecBusy == Init /\ [][NextBusy]_vars /\ \A n \in 1..MaxCycles : WF_vars(Settle(n))

----------------------------------------------------------------------------
(* The correlation patch on its own: a cycle has published and awaits the  *)
(* answer of get_cdp_urls; the published list is any list of the two       *)
(* groups and the answer any answer of at most MaxEntries entries.         *)

\* what a record can hold after earlier patches and carry-forwards
UrlStates == { <<"", "">>, <<"u1", "page">>, <<"u2", "">>, <<"", "page">> }

WithUrl(proc, u) == [proc EXCEPT !.url = u[1], !.cdp_target_type = u[2]]

\* a group list with the url state u2 on pid 2 and u3 on pid 3
Decorate(list, u2, u3) ==
    [g \in 1..Len(list) |->
        [list[g] EXCEPT !.processes =
            [i \in 1..Len(list[g].processes) |->
                LET proc == list[g].processes[i]
                IN IF proc.pid = 2 THEN WithUrl(proc, u2)
                   ELSE IF proc.pid = 3 THEN WithUrl(proc, u3)
                   ELSE proc]]]

PublishedLists ==
    { Decorate(list, u2, u3) : list \in AllSnapshots, u2 \in UrlStates, u3 \in UrlStates }

\* the list without what the correlator adds: url and cdp_target_type
Strip(list) ==
    [g \in 1..Len(list) |->
        [list[g] EXCEPT !.processes =
            [i \in 1..Len(list[g].processes) |-> WithUrl(list[g].processes[i], <<"", "">>)]]]

InitCdp ==
    /\ groups \in PublishedLists
    /\ loading = FALSE
    /\ expandedGroups = AutoExpand(groups)
    /\ statusMsg = ""
    /\ autoRefresh = FALSE
    /\ hiddenTypes = {"WebView2"}
    /\ intervalRef = 0
    /\ timers = {}
    /\ cycles = <<[NewCycle(TRUE, "mount") EXCEPT !.pc = "cdp", !.events = SnapshotOkEvents]>>
    /\ termPending = <<>>
    /\ timeouts = 0
    /\ nTerm = 0
    /\ lastWrite = "publish"
    /\ answer = NoAnswer
    /\ built = Strip(groups)
    /\ dropped = {}
    /\ before = <<>>
    /\ input = <<>>
    /\ output = <<>>
    /\ mounted = TRUE
    /\ repos = <<>>

\* get_cdp_urls resolves, the answer observed
CdpObserved(n, portMap) ==
    /\ CdpResolve(n, portMap)
    /\ answer' = portMap
    /\ before' = groups

NextCdp ==
    \/ \E n \in AwaitingCdp, portMap \in AllPortMaps : CdpObserved(n, portMap)
    \/ \E n \in AwaitingCdp : CdpFail(n)

SpecCdp == InitCdp /\ [][NextCdp]_vars

----------------------------------------------------------------------------
(* The rows of an expanded group: sortProcesses, applied by the render to   *)
(* group.processes (line 398).  The list is any one-group list the backend  *)
(* can answer: the root first or anywhere, the members in any order.        *)

\* a.process_type.toLowerCase().replace(/\(s\)$/, ""), on the process types;
\* none of them ends in "(s)"
TypeKey(type) ==
    CASE type = "Browser" -> "browser"
      [] type = "Renderer" -> "renderer"
      [] type = "Extension" -> "extension"
      [] type = "GPU" -> "gpu"
      [] type = "Crashpad" -> "crashpad"
      [] type = "Utility" -> "utility"
      [] OTHER -> "unknown"

\* typeOrder[key] ?? 99
typeOrder(key) ==
    CASE key = "browser" -> 0
      [] key = "renderer" -> 1
      [] key = "gpu" -> 2
      [] key = "crashpad" -> 3
      [] key = "utility" -> 4
      [] OTHER -> 99

\* aOrder of the comparator
OrderOf(proc) == typeOrder(TypeKey(proc.process_type))

RECURSIVE InsertStable(_, _)
\* the place of p among rows already sorted: after every row the comparator
\* does not put behind it (aOrder - bOrder <= 0); Array.prototype.sort is
\* stable
InsertStable(rows, p) ==
    IF rows = <<>> THEN <<p>>
    ELSE IF OrderOf(Head(rows)) - OrderOf(p) <= 0
         THEN <<Head(rows)>> \o InsertStable(Tail(rows), p)
         ELSE <<p>> \o rows

RECURSIVE sortProcesses(_)
\* [...procs].sort((a, b) => aOrder - bOrder)
sortProcesses(procs) ==
    IF procs = <<>> THEN <<>>
    ELSE InsertStable(sortProcesses(SubSeq(procs, 1, Len(procs) - 1)), procs[Len(procs)])

\* what the render shows of each group: the sorted rows of a shown, expanded
\* group, nothing of the others
Rendered ==
    [g \in 1..Len(groups) |->
        IF g \in ShownGroups /\ groups[g].browser_pid \in expandedGroups
        THEN sortProcesses(groups[g].processes)
        ELSE <<>>]

\* the process types of the members other than the root
MemberTypes == {"Renderer", "Extension", "GPU", "Crashpad", "Utility", "Unknown"}

MemberProc(pid, type) ==
    IF type = "Browser" THEN RootProc(pid, "Browser", "none")
    ELSE ProcessInfo(pid, type,
                     IF type = "Unknown" THEN <<>>
                     ELSE <<Plain("msedge.exe"), KeyVal("--type", TypeKey(type))>>,
                     10)

\* the sequences without repetition of the elements of S
RECURSIVE Orderings(_)
Orderings(S) ==
    IF S = {} THEN {<<>>}
    ELSE UNION { { <<x>> \o q : q \in Orderings(S \ {x}) } : x \in S }

\* the member lists: the root pid 1 and some of the pids 2..MaxMembers, of
\* any type, in any order
MemberLists ==
    UNION { UNION { { [i \in 1..Len(order) |->
                          MemberProc(order[i], IF order[i] = 1 THEN "Browser" ELSE type[order[i]])] :
                      order \in Orderings(P \cup {1}) } :
                    type \in [P -> MemberTypes] } :
            P \in SUBSET (2..MaxMembers) }

ViewLists == { <<ProcessGroup(1, "Stable", "Stable", procs)>> : procs \in MemberLists }

\* the view after a first load whose correlator query failed
InitView ==
    /\ groups \in ViewLists
    /\ loading = FALSE
    /\ expandedGroups = AutoExpand(groups)
    /\ statusMsg = ""
    /\ autoRefresh = FALSE
    /\ hiddenTypes = {"WebView2"}
    /\ intervalRef = 0
    /\ timers = {}
    /\ cycles = <<[NewCycle(TRUE, "mount") EXCEPT !.pc = "cdpfail", !.events = SnapshotOkEvents]>>
    /\ termPending = <<>>
    /\ timeouts = 0
    /\ nTerm = 0
    /\ lastWrite = "publish"
    /\ answer = NoAnswer
    /\ built = groups
    /\ dropped = {}
    /\ before = <<>>
    /\ input = <<>>
    /\ output = <<>>
    /\ mounted = TRUE
    /\ repos = <<>>

\* the render that follows a change of state: the JSX of lines 331-398
Render ==
    /\ ~loading
    /\ output # Rendered
    /\ output' = Rendered
    /\ UNCHANGED <<groups, loading, expandedGroups, statusMsg, autoRefresh, hiddenTypes,
                   intervalRef, timers, cycles, termPending, timeouts, nTerm, hist, answer,
                   before, input, mounted, repos>>

NextView ==
    \/ Render
    \/ \E pid \in {1} : ToggleGroup(pid)

SpecView == InitView /\ [][NextView]_vars

----------------------------------------------------------------------------
(* The group builder behind get_edge_processes: from the classified        *)
(* records of one snapshot to the groups, by the walk up the parent pids.   *)

\* a classified record, as far as the builder reads it; parent_pid is
\* NullPid when absent
ClassifiedRecord(pid, parent, role) == [pid |-> pid, parent_pid |-> parent, role |-> role]

HasPid(snapshot, pid) == \E i \in 1..Len(snapshot) : snapshot[i].pid = pid

\* the index by pid: the record of a pid of the snapshot
RecordOf(snapshot, pid) ==
    snapshot[CHOOSE i \in 1..Len(snapshot) : snapshot[i].pid = pid]

\* variant: the walk may take twice as many steps
WalkBudgetDouble(snapshot) == 2 * Len(snapshot)

\* the bound of a walk: the size of the input set
WalkBudget(snapshot) == Len(snapshot)

RECURSIVE WalkOrphanRoots(_, _, _)
\* variant: a record whose chain breaks is the root of a group of its own
WalkOrphanRoots(snapshot, pid, steps) ==
    LET rec == RecordOf(snapshot, pid)
    IN IF rec.role = "Browser" THEN [root |-> pid, steps |-> steps]
       ELSE IF steps >= WalkBudget(snapshot) THEN [root |-> NullPid, steps |-> steps]
       ELSE IF rec.parent_pid = NullPid \/ ~HasPid(snapshot, rec.parent_pid)
       THEN [root |-> pid, steps |-> steps]
       ELSE WalkOrphanRoots(snapshot, rec.parent_pid, steps + 1)

RECURSIVE Walk(_, _, _)
\* the walk from a record up the parent pids: the pid of the first record
\* of Browser role (the record itself included), NullPid when the chain
\* breaks or the bound is reached; steps counts the lookups of a parent
Walk(snapshot, pid, steps) ==
    LET rec == RecordOf(snapshot, pid)
    IN IF rec.role = "Browser" THEN [root |-> pid, steps |-> steps]
       ELSE IF \/ steps >= WalkBudget(snapshot)
               \/ rec.parent_pid = NullPid
               \/ ~HasPid(snapshot, rec.parent_pid)
       THEN [root |-> NullPid, steps |-> steps]
       ELSE Walk(snapshot, rec.parent_pid, steps + 1)

RECURSIVE Ascending(_)
\* the pids of a set in ascending order
Ascending(S) ==
    IF S = {} THEN <<>>
    ELSE LET least == CHOOSE x \in S : \A y \in S : x <= y
         IN <<least>> \o Ascending(S \ {least})

SnapshotPids(snapshot) == { snapshot[i].pid : i \in 1..Len(snapshot) }

\* build_groups: one group per pid a walk ends at, by ascending root pid,
\* its members the records whose walk ends there
build_groups(snapshot) ==
    LET pids == SnapshotPids(snapshot)
        roots == Ascending({ Walk(snapshot, pid, 0).root : pid \in pids } \ {NullPid})
    IN [g \in 1..Len(roots) |->
          [root_pid |-> roots[g],
           members |-> { pid \in pids : Walk(snapshot, pid, 0).root = roots[g] }]]

\* the roles of the records given to the builder
BuildRoles == {"Browser", "Renderer", "Utility"}

\* the snapshot of the pids of P in ascending order, f giving the parent and
\* the role of each
SnapshotOf(P, f) ==
    LET order == Ascending(P)
    IN [i \in 1..Len(order) |-> ClassifiedRecord(order[i], f[order[i]][1], f[order[i]][2])]

\* the parents of a record: absent, a pid of 1..MaxPids (in the snapshot or
\* not, the record's own included) or the pid MaxPids + 1 of a process that
\* is never in the snapshot
ParentPids == 0..(MaxPids + 1)

\* the view is mounted and get_edge_processes has the classified snapshot
InitBuild ==
    /\ groups = <<>>
    /\ loading = TRUE
    /\ expandedGroups = {}
    /\ statusMsg = ""
    /\ autoRefresh = FALSE
    /\ hiddenTypes = {"WebView2"}
    /\ intervalRef = 0
    /\ timers = {}
    /\ cycles = <<NewCycle(TRUE, "mount")>>
    /\ termPending = <<>>
    /\ timeouts = 0
    /\ nTerm = 0
    /\ lastWrite = "none"
    /\ answer = NoAnswer
    /\ built = <<>>
    /\ dropped = {}
    /\ before = <<>>
    /\ \E P \in SUBSET (1..MaxPids) :
           \E f \in [P -> ParentPids \X BuildRoles] : input = SnapshotOf(P, f)
    /\ output = <<>>
    /\ mounted = TRUE
    /\ repos = <<>>

\* the builder runs: its groups, and the steps each walk took
BuildGroups ==
    /\ output = <<>>
    /\ output' = [groups |-> build_groups(input),
                  steps |-> [pid \in SnapshotPids(input) |-> Walk(input, pid, 0).steps]]
    /\ UNCHANGED <<groups, loading, expandedGroups, statusMsg, autoRefresh, hiddenTypes,
                   intervalRef, timers, cycles, termPending, timeouts, nTerm, hist, answer,
                   before, input, mounted, repos>>

NextBuild == BuildGroups

SpecBuild == InitBuild /\ [][NextBuild]_vars

----------------------------------------------------------------------------
(* The classifier behind get_edge_processes: role, channel and instance     *)
(* type of a raw record.  An executable path is the sequence of its words   *)
(* (directories, then the file name), a command line a sequence of          *)
(* arguments as in cmd_args.                                                *)

\* a record of the snapshot provider
RawRecord(pid, parent, path, args) ==
    [pid |-> pid, parent_pid |-> parent, executable_path |-> path, command_line |-> args]

\* lower case of the words of the paths
LowerWord(w) ==
    CASE w = "Microsoft" -> "microsoft"
      [] w = "Edge" -> "edge"
      [] w = "BETA" -> "beta"
      [] w = "EdgeWebView" -> "edgewebview"
      [] w = "Copilot" -> "copilot"
      [] w = "Application" -> "application"
      [] OTHER -> w

\* case-insensitive match of a marker against the words of a path
HasMarker(path, marker) == \E i \in 1..Len(path) : LowerWord(path[i]) = marker

\* the file name of a path, "" for the empty path
FileName(path) == IF path = <<>> THEN "" ELSE LowerWord(path[Len(path)])

\* the first --type= argument of a command line, 0 when there is none
FirstTypeArg(args) ==
    FirstOf({ i \in 1..Len(args) : args[i].key = "--type" /\ args[i].eq })

\* the role of a type token: the known tokens, Utility for any other
RoleOfToken(token) ==
    CASE token = "renderer" -> "Renderer"
      [] token = "extension" -> "Extension"
      [] token = "gpu-process" -> "GPU"
      [] token = "crashpad-handler" -> "Crashpad"
      [] OTHER -> "Utility"

\* role: Unknown for an empty command line, Browser without type argument
RoleOf(args) ==
    IF args = <<>> THEN "Unknown"
    ELSE IF FirstTypeArg(args) = 0 THEN "Browser"
    ELSE RoleOfToken(args[FirstTypeArg(args)].val)

\* the binary looks like the product
IsProductBinary(path) == FileName(path) \in {"msedge.exe", "msedgewebview2.exe"}

\* channel: the marker in the path, Stable for the product without marker
ChannelOf(path) ==
    IF HasMarker(path, "beta") THEN "Beta"
    ELSE IF HasMarker(path, "dev") THEN "Dev"
    ELSE IF HasMarker(path, "canary") THEN "Canary"
    ELSE IF HasMarker(path, "internal") THEN "Internal"
    ELSE IF IsProductBinary(path) THEN "Stable"
    ELSE "Unknown"

\* instance type: WebView2 for the runtime loader, Copilot for its own
\* binary, else the channel, Stable when there is none
InstanceTypeOf(path) ==
    IF FileName(path) = "msedgewebview2.exe" THEN "WebView2"
    ELSE IF HasMarker(path, "copilot") THEN "Copilot"
    ELSE IF ChannelOf(path) = "Unknown" THEN "Stable"
    ELSE ChannelOf(path)

\* variant: a record without parent is taken for the browser
classifyByParent(record) ==
    [pid |-> record.pid, parent_pid |-> record.parent_pid,
     role |-> IF record.parent_pid = NullPid THEN "Browser" ELSE RoleOf(record.command_line),
     channel |-> ChannelOf(record.executable_path),
     instance_type |-> InstanceTypeOf(record.executable_path)]

\* classify: the record with role, channel and instance type populated
classify(record) ==
    [pid |-> record.pid, parent_pid |-> record.parent_pid,
     role |-> RoleOf(record.command_line),
     channel |-> ChannelOf(record.executable_path),
     instance_type |-> InstanceTypeOf(record.executable_path)]

\* the executable paths: the browser, a Beta install in upper case, the
\* WebView2 runtime, Copilot, and a binary of another product
ExecutablePaths ==
    { <<"Microsoft", "Edge", "Application", "msedge.exe">>,
      <<"Microsoft", "Edge", "BETA", "Application", "msedge.exe">>,
      <<"Microsoft", "EdgeWebView", "Application", "msedgewebview2.exe">>,
      <<"Microsoft", "Copilot", "mscopilot.exe">>,
      <<"helper.exe">> }

\* the command lines: empty; the binary alone; a known and an unknown type
CommandLines ==
    { <<>>,
      <<Plain("msedge.exe")>>,
      <<Plain("msedge.exe"), KeyVal("--type", "renderer")>>,
      <<Plain("msedge.exe"), KeyVal("--type", "mystery")>> }

\* the raw snapshots of n records: pid i at position i, a parent that is
\* absent or pid 1
RawSnapshots(n) ==
    [1..n -> { [parent_pid |-> parent, executable_path |-> path, command_line |-> args] :
                 parent \in {NullPid, 1}, path \in ExecutablePaths, args \in CommandLines }]

\* the view is mounted and get_edge_processes has the raw snapshot
InitClassify ==
    /\ groups = <<>>
    /\ loading = TRUE
    /\ expandedGroups = {}
    /\ statusMsg = ""
    /\ autoRefresh = FALSE
    /\ hiddenTypes = {"WebView2"}
    /\ intervalRef = 0
    /\ timers = {}
    /\ cycles = <<NewCycle(TRUE, "mount")>>
    /\ termPending = <<>>
    /\ timeouts = 0
    /\ nTerm = 0
    /\ lastWrite = "none"
    /\ answer = NoAnswer
    /\ built = <<>>
    /\ dropped = {}
    /\ before = <<>>
    /\ \E n \in 0..MaxRecords :
           \E raw \in RawSnapshots(n) :
               input = [i \in 1..n |->
                           RawRecord(i, raw[i].parent_pid, raw[i].executable_path,
                                     raw[i].command_line)]
    /\ output = <<>>
    /\ mounted = TRUE
    /\ repos = <<>>

\* the classifier runs over the records of the snapshot
ClassifyAll ==
    /\ output = <<>>
    /\ output' = [classified |-> [i \in 1..Len(input) |-> classify(input[i])]]
    /\ UNCHANGED <<groups, loading, expandedGroups, statusMsg, autoRefresh, hiddenTypes,
                   intervalRef, timers, cycles, termPending, timeouts, nTerm, hist, answer,
                   before, input, mounted, repos>>

NextClassify == ClassifyAll

SpecClassify == InitClassify /\ [][NextClassify]_vars

----------------------------------------------------------------------------
(* Properties of the refresh cycle *)

\* the record of pid in a list whose pids are unique
ProcOf(list, pid) ==
    LET flat == Flatten(list)
    IN flat[CHOOSE i \in 1..Len(flat) : flat[i].pid = pid]

\* cycle n has called setGroups with its snapshot
Published(n) == cycles[n].events # <<>>

\* the steps of cycle n, as seen on a pair of states
SnapshotOkStep(n) == cycles[n].pc = "snap" /\ cycles'[n].pc = "cdp"
SnapshotFailStep(n) == cycles[n].pc = "snap" /\ cycles'[n].pc = "snapfail"
CdpOkStep(n) == cycles[n].pc = "cdp" /\ cycles'[n].pc = "done"
CdpFailStep(n) == cycles[n].pc = "cdp" /\ cycles'[n].pc = "cdpfail"

\* C1: discard-on-stale. The answer of get_cdp_urls requested by cycle n,
\* arriving after a cycle started later has published its list, leaves the
\* published list unchanged.
C1_DiscardOnStale ==
    [][\A n \in 1..Len(cycles) :
          (CdpOkStep(n) /\ \E m \in (n + 1)..Len(cycles) : Published(m))
              => groups' = groups]_vars

\* C2: the refresh cycle is never invoked concurrently with itself: at most
\* one cycle awaits get_edge_processes at any time.
C2_NoConcurrentRefresh == Cardinality(AwaitingSnapshot) <= 1

\* C3: carry-forward. When a list is published, every pid that had a
\* non-empty url in the preceding published list and is present in the new
\* one keeps the url and the target type of the preceding list.
C3_CarryForward ==
    [][\A n \in 1..Len(cycles) :
          SnapshotOkStep(n) =>
              \A pid \in UrlPids(groups) \cap Pids(groups') :
                  /\ ProcOf(groups', pid).url = ProcOf(groups, pid).url
                  /\ ProcOf(groups', pid).cdp_target_type
                         = ProcOf(groups, pid).cdp_target_type]_vars

\* three lists were published, only the first cycle's correlator answered,
\* and a url is still shown right after the latest publication
C3_Witness ==
    /\ Len(cycles) = 3
    /\ cycles[1].pc = "done" /\ cycles[2].pc = "cdpfail" /\ cycles[3].pc = "cdp"
    /\ lastWrite = "publish"
    /\ UrlPids(groups) # {}

\* C4: carry-forward never adds a pid and carries only from the list just
\* replaced. When a list is published its pids are those of the snapshot,
\* and a pid that was absent from the preceding list, or had no url there,
\* is published exactly as built.
C4_NoCarryForAbsent ==
    [][\A n \in 1..Len(cycles) :
          SnapshotOkStep(n) =>
              /\ Pids(groups') = Pids(built')
              /\ \A pid \in Pids(groups') \ UrlPids(groups) :
                     ProcOf(groups', pid) = ProcOf(built', pid)]_vars

\* pid 2 left the list while holding a url, is back in the list just
\* published, and has no url
C4_Witness ==
    /\ 2 \in dropped
    /\ lastWrite = "publish"
    /\ 2 \in Pids(groups)
    /\ ProcOf(groups, 2).url = "" /\ ProcOf(groups, 2).cdp_target_type = ""

\* C5: within a cycle the list is published before get_cdp_urls is
\* requested, and the answer is handled after both: a cycle that has
\* requested or received the correlator answer has published before.
C5_PublishBeforeCorrelate ==
    \A n \in 1..Len(cycles) :
        LET ev == cycles[n].events
        IN /\ cycles[n].pc \in {"cdp", "done", "cdpfail"} => Published(n)
           /\ \A i \in 1..Len(ev) :
                  ev[i] \in {"cdp_request", "patch"} =>
                      \E k \in 1..(i - 1) : ev[k] = "publish"
           /\ \A i \in 1..Len(ev) :
                  ev[i] = "patch" => \E k \in 1..(i - 1) : ev[k] = "cdp_request"

\* a cycle has published, asked the correlator and applied its answer
C5_Witness ==
    \E n \in 1..Len(cycles) :
        cycles[n].pc = "done" /\ cycles[n].events = <<"publish", "cdp_request", "patch">>

\* C6: a failed snapshot request aborts the cycle: the published list and
\* the expanded set are unchanged, no correlator query is started, and the
\* cycle takes no further step.
C6_SnapshotFailureAborts ==
    [][\A n \in 1..Len(cycles) :
          /\ SnapshotFailStep(n) =>
                 /\ groups' = groups
                 /\ expandedGroups' = expandedGroups
                 /\ cycles'[n].events = <<>>
          /\ cycles[n].pc = "snapfail" => cycles'[n] = cycles[n]]_vars

\* a cycle failed while a non-empty list with an expanded group was shown
C6_Witness ==
    /\ \E n \in 1..Len(cycles) : cycles[n].pc = "snapfail"
    /\ groups # <<>>
    /\ expandedGroups # {}

\* C7: a failed snapshot request sets the status message.
C7_FailureShown ==
    [][\A n \in 1..Len(cycles) : SnapshotFailStep(n) => statusMsg' # ""]_vars

----------------------------------------------------------------------------
(* Properties of the correlation patch *)

\* the entries of an answer, over all its ports
EntriesOf(portMap, port) == { portMap[port][i] : i \in 1..Len(portMap[port]) }

\* the answer without the entries whose process id is not in pids
Restrict(portMap, pids) ==
    [port \in DOMAIN portMap |->
        SelectSeq(portMap[port], LAMBDA e : e.process_id \in pids)]

\* the member of a group whose pid is the group's browser_pid
RootOf(group) ==
    LET ps == group.processes
    IN ps[CHOOSE i \in 1..Len(ps) : ps[i].pid = group.browser_pid]

\* the values of the debugging-port flag on a record's command line
PortFlagValues(proc) ==
    { proc.cmd_args[i].val :
        i \in { j \in 1..Len(proc.cmd_args) : IsPortArg(proc.cmd_args[j]) } }

\* member i of group g carries the url and the target type of entry e
Carries(list, g, i, e) ==
    /\ list[g].processes[i].url = e.url
    /\ list[g].processes[i].cdp_target_type = OrEmpty(e.target_type)

\* C8: correlator failures are isolated and invisible. A rejected or empty
\* answer leaves the list, the status message and the busy flag unchanged;
\* an answer without data for a group's port leaves that group unchanged,
\* while in a group whose port has data every member with an entry holds the
\* values of an entry for its pid.
C8_CorrelatorFailureIsolated ==
    [][\A n \in 1..Len(cycles) :
          /\ (CdpFailStep(n) \/ (CdpOkStep(n) /\ DOMAIN answer' = {}))
                 => UNCHANGED <<groups, statusMsg, loading>>
          /\ CdpOkStep(n) =>
                 /\ Len(groups') = Len(groups)
                 /\ \A g \in 1..Len(groups) :
                        IF GroupPort(groups[g]) \notin DOMAIN answer'
                        THEN groups'[g] = groups[g]
                        ELSE \A i \in 1..Len(groups[g].processes) :
                                 LET es == { e \in EntriesOf(answer', GroupPort(groups[g])) :
                                               e.process_id = groups[g].processes[i].pid }
                                 IN es # {} => \E e \in es : Carries(groups', g, i, e)]_vars

\* the answer had data for port 9222 only: pid 2 of the first group holds
\* the entry's url, the second group (port 9223) still holds an older url
C8_Witness ==
    /\ cycles[1].pc = "done"
    /\ DOMAIN answer = {"9222"}
    /\ Len(groups) = 2
    /\ GroupPort(groups[1]) = "9222" /\ GroupPort(groups[2]) = "9223"
    /\ 2 \in Pids(groups) /\ ProcOf(groups, 2).url = "u1"
    /\ \E e \in EntriesOf(answer, "9222") : e.process_id = 2 /\ e.url = "u1"
    /\ ProcOf(groups, 3).url = "u2"

\* C9: applying an answer changes nothing but url and cdp_target_type: the
\* groups, the members, their order and every other field stay, and the
\* entries for pids that are not in the list have no effect.
C9_PatchFrame ==
    [][\A n \in 1..Len(cycles) :
          CdpOkStep(n) =>
              /\ Strip(groups') = Strip(groups)
              /\ groups' = ApplyCdp(groups, Restrict(answer', Pids(groups)))]_vars

\* an answer with an entry for a pid outside the list and an entry that was
\* applied to a member
C9_Witness ==
    /\ cycles[1].pc = "done"
    /\ \E port \in DOMAIN answer :
          /\ \E e \in EntriesOf(answer, port) :
                 e.process_id # NullPid /\ e.process_id \notin Pids(groups)
          /\ \E e \in EntriesOf(answer, port), g \in 1..Len(groups) :
                 /\ GroupPort(groups[g]) = port
                 /\ e.url # ""
                 /\ \E i \in 1..Len(groups[g].processes) :
                        groups[g].processes[i].pid = e.process_id /\ Carries(groups, g, i, e)

\* C10: a record changes only if the root of its group has process_type
\* Browser and declares the debugging-port flag with a port P for which the
\* answer has an entry with the record's pid, whose values the record takes.
C10_PortAndPidMatch ==
    [][\A n \in 1..Len(cycles) :
          CdpOkStep(n) =>
              /\ Len(groups') = Len(groups)
              /\ \A g \in 1..Len(groups) :
                     /\ Len(groups'[g].processes) = Len(groups[g].processes)
                     /\ \A i \in 1..Len(groups[g].processes) :
                            groups'[g].processes[i] # groups[g].processes[i] =>
                                /\ RootOf(groups[g]).process_type = "Browser"
                                /\ \E port \in PortFlagValues(RootOf(groups[g])) \cap DOMAIN answer' :
                                       \E e \in EntriesOf(answer', port) :
                                           /\ e.process_id = groups[g].processes[i].pid
                                           /\ Carries(groups', g, i, e)]_vars

\* an answer with an entry for pid 2 was handled while pid 2 was a member of
\* a group whose root declares no port or is no Browser; pid 2 has no url
C10_Witness ==
    /\ cycles[1].pc = "done"
    /\ \E g \in 1..Len(groups) :
          /\ GroupPort(groups[g]) = ""
          /\ \E i \in 1..Len(groups[g].processes) :
                 /\ groups[g].processes[i].pid = 2
                 /\ groups[g].processes[i].url = ""
    /\ \E port \in DOMAIN answer :
          \E e \in EntriesOf(answer, port) : e.process_id = 2 /\ e.url = "u1"
    /\ \E port \in DOMAIN answer, g \in 1..Len(groups) : GroupPort(groups[g]) = port

\* every entry of the answer lacks a process id
OnlyNullEntries(portMap) ==
    \A port \in DOMAIN portMap :
        \A e \in EntriesOf(portMap, port) : e.process_id = NullPid

\* the answer without the entries that lack a process id
WithoutNull(portMap) ==
    [port \in DOMAIN portMap |->
        SelectSeq(portMap[port], LAMBDA e : e.process_id # NullPid)]

\* C11: an entry whose process id is null matches no record and raises no
\* error: the answer is handled to its end, an answer holding only such
\* entries leaves the list unchanged, and any answer has the effect it has
\* without them.
C11_NullPidNeverMatches ==
    [][\A n \in 1..Len(cycles) :
          CdpOkStep(n) =>
              /\ OnlyNullEntries(answer') => groups' = groups
              /\ groups' = ApplyCdp(groups, WithoutNull(answer'))]_vars

\* an answer of null-pid entries with a url was handled for the port of a
\* group that has a member without url
C11_Witness ==
    /\ cycles[1].pc = "done"
    /\ OnlyNullEntries(answer)
    /\ \E port \in DOMAIN answer, g \in 1..Len(groups) :
          /\ GroupPort(groups[g]) = port
          /\ \E e \in EntriesOf(answer, port) : e.url = "u1"
          /\ \E i \in 1..Len(groups[g].processes) : groups[g].processes[i].url = ""

\* C12: url and target type are cleared when the target disappears: once an
\* answer with data for a group's port is applied, a member for whose pid
\* the data has no entry holds no url and no target type.
C12_ClearedWhenTargetGone ==
    [][\A n \in 1..Len(cycles) :
          CdpOkStep(n) =>
              \A g \in 1..Len(groups) :
                  GroupPort(groups[g]) \in DOMAIN answer' =>
                      \A i \in 1..Len(groups[g].processes) :
                          (\A e \in EntriesOf(answer', GroupPort(groups[g])) :
                               e.process_id # groups[g].processes[i].pid)
                              => /\ groups'[g].processes[i].url = ""
                                 /\ groups'[g].processes[i].cdp_target_type = ""]_vars

\* the first entry of pages for pid, by position; 0 when there is none
FirstEntryFor(pages, pid) ==
    IF \A k \in 1..Len(pages) : pages[k].process_id # pid THEN 0
    ELSE CHOOSE k \in 1..Len(pages) :
             /\ pages[k].process_id = pid
             /\ \A j \in 1..(k - 1) : pages[j].process_id # pid

\* C13: fresh data overrides carried-forward data: once an answer is
\* applied, a member of a group whose port has data with an entry for the
\* member's pid holds the url and the target type of that entry (the first
\* one for the pid), whatever it held before.
C13_FreshOverridesCarried ==
    [][\A n \in 1..Len(cycles) :
          CdpOkStep(n) =>
              \A g \in 1..Len(groups) :
                  GroupPort(groups[g]) \in DOMAIN answer' =>
                      \A i \in 1..Len(groups[g].processes) :
                          LET pages == answer'[GroupPort(groups[g])]
                              k == FirstEntryFor(pages, groups[g].processes[i].pid)
                          IN k # 0 => Carries(groups', g, i, pages[k])]_vars

\* pid 2 was published with the carried url "u1" and holds "u2" after an
\* answer with an entry ("u2", no type) for it
C13_Witness ==
    /\ cycles[1].pc = "done"
    /\ 2 \in Pids(before)
    /\ ProcOf(before, 2).url = "u1" /\ ProcOf(before, 2).cdp_target_type = "page"
    /\ 2 \in Pids(groups)
    /\ ProcOf(groups, 2).url = "u2" /\ ProcOf(groups, 2).cdp_target_type = ""
    /\ \E port \in DOMAIN answer :
          /\ \E g \in 1..Len(groups) :
                 GroupPort(groups[g]) = port
                 /\ \E i \in 1..Len(groups[g].processes) : groups[g].processes[i].pid = 2
          /\ FirstEntryFor(answer[port], 2) # 0
          /\ answer[port][FirstEntryFor(answer[port], 2)].url = "u2"

----------------------------------------------------------------------------
(* Properties of the busy flag and of the published list as a whole *)

\* a call of refresh() by the given trigger reaches its first await
StartStep(trigger) ==
    /\ Len(cycles') = Len(cycles) + 1
    /\ cycles'[Len(cycles')].trigger = trigger

\* the triggers that call refresh(false)
QuietTriggers == {"timer", "timeout"}

\* C14: the busy flag is tied to the trigger: a manual refresh sets it when
\* it starts; a refresh started by the timer or by the delay after a
\* terminate leaves it as it is at its start and at every later step of its
\* cycle, whether the cycle succeeds or fails.
C14_BusyTiedToTrigger ==
    [][/\ StartStep("manual") => loading'
       /\ \A t \in QuietTriggers : StartStep(t) => loading' = loading
       /\ \A n \in 1..Len(cycles) :
              (cycles[n].trigger \in QuietTriggers /\ cycles'[n] # cycles[n])
                  => loading' = loading]_vars

\* a refresh started by the timer has failed and one started after a
\* terminate has run to its end
C14_Witness ==
    /\ \E n \in 1..Len(cycles) : cycles[n].trigger = "timer" /\ cycles[n].pc = "snapfail"
    /\ \E n \in 1..Len(cycles) : cycles[n].trigger = "timeout" /\ cycles[n].pc = "done"

\* the (url, target type) pairs the answers of the refresh cycles deliver,
\* and the pair of a record as built
DeliveredPairs ==
    { <<"", "">> }
    \cup { <<e.url, OrEmpty(e.target_type)>> :
             e \in UNION { EntriesOf(portMap, port) :
                             <<portMap, port>> \in { t \in PortMaps \X Ports :
                                                       t[2] \in DOMAIN t[1] } } }

\* C15: replace and patch are atomic to readers: in every state the list is,
\* url and target type apart, the whole of the snapshot published last, and
\* every record's (url, target type) is a pair one entry delivered, or the
\* pair as built.
C15_AtomicMutations ==
    /\ Strip(groups) = built
    /\ \A g \in 1..Len(groups) :
           \A i \in 1..Len(groups[g].processes) :
               <<groups[g].processes[i].url, groups[g].processes[i].cdp_target_type>>
                   \in DeliveredPairs

\* a list was just published in which pid 2 and pid 3 hold the pairs of two
\* different answers, both carried forward
C15_Witness ==
    /\ lastWrite = "publish"
    /\ {2, 3} \subseteq Pids(groups)
    /\ ProcOf(groups, 2).url = "u2" /\ ProcOf(groups, 2).cdp_target_type = ""
    /\ ProcOf(groups, 3).url = "u1" /\ ProcOf(groups, 3).cdp_target_type = "page"

----------------------------------------------------------------------------
(* Properties of the rows of a group *)

\* the place of a role in Browser, Renderer, Extension, GPU, Crashpad,
\* Utility, Unknown
RolePrecedence(type) ==
    CASE type = "Browser" -> 1
      [] type = "Renderer" -> 2
      [] type = "Extension" -> 3
      [] type = "GPU" -> 4
      [] type = "Crashpad" -> 5
      [] type = "Utility" -> 6
      [] OTHER -> 7

\* C16: the rows of a group follow the precedence Browser, Renderer,
\* Extension, GPU, Crashpad, Utility, Unknown: of two members, the one whose
\* role comes earlier is displayed first.
C16_RolePrecedence ==
    \A g \in 1..Len(output) :
        \A i, j \in 1..Len(output[g]) :
            RolePrecedence(output[g][i].process_type) < RolePrecedence(output[g][j].process_type)
                => i < j

\* C17: the rows of a group that have the same role are in ascending pid
\* order, whatever the order of the group's member list.
C17_SameRoleByPid ==
    \A g \in 1..Len(output) :
        \A i, j \in 1..Len(output[g]) :
            (output[g][i].process_type = output[g][j].process_type
             /\ output[g][i].pid < output[g][j].pid) => i < j

----------------------------------------------------------------------------
(* Properties of the group builder *)

\* the builder has run
Built == output # <<>>

RECURSIVE NthAncestor(_, _, _)
\* the record k parents above pid, NullPid when there is none: NullPid and
\* the pids outside the snapshot have no parent
NthAncestor(snapshot, pid, k) ==
    IF k = 0 THEN pid
    ELSE LET below == NthAncestor(snapshot, pid, k - 1)
         IN IF below = NullPid \/ ~HasPid(snapshot, below) THEN NullPid
            ELSE RecordOf(snapshot, below).parent_pid

\* the records from pid up to its (k-1)-th ancestor are in the snapshot and
\* none has Browser role
NoBrowserBelow(snapshot, pid, k) ==
    \A j \in 0..(k - 1) :
        /\ HasPid(snapshot, NthAncestor(snapshot, pid, j))
        /\ RecordOf(snapshot, NthAncestor(snapshot, pid, j)).role # "Browser"

\* pid has root as its nearest ancestor of Browser role, itself included
HasBrowserAncestor(snapshot, pid, root) ==
    /\ HasPid(snapshot, root)
    /\ RecordOf(snapshot, root).role = "Browser"
    /\ \E k \in 0..(Len(snapshot) - 1) :
           NthAncestor(snapshot, pid, k) = root /\ NoBrowserBelow(snapshot, pid, k)

\* pid lies on a cycle of parent pids that holds no record of Browser role
OnBrowserlessCycle(snapshot, pid) ==
    \E k \in 1..Len(snapshot) :
        NthAncestor(snapshot, pid, k) = pid /\ NoBrowserBelow(snapshot, pid, k)

\* C18: the groups partition the processes that have a Browser-role
\* ancestor: there is one group per Browser-role record, by ascending root
\* pid; its members are the records whose chain of parents first meets a
\* Browser-role record at the root (the root included); no pid is in two
\* groups; a record whose chain breaks before is in no group.
C18_GroupsPartition ==
    Built =>
        LET gs == output.groups
            pids == SnapshotPids(input)
        IN /\ { gs[g].root_pid : g \in 1..Len(gs) }
                  = { pid \in pids : RecordOf(input, pid).role = "Browser" }
           /\ \A g, h \in 1..Len(gs) : g < h => gs[g].root_pid < gs[h].root_pid
           /\ \A g \in 1..Len(gs) :
                  gs[g].members = { pid \in pids : HasBrowserAncestor(input, pid, gs[g].root_pid) }
           /\ \A g, h \in 1..Len(gs) : g # h => gs[g].members \cap gs[h].members = {}
           /\ \A pid \in pids :
                  (\A root \in pids : ~HasBrowserAncestor(input, pid, root))
                      => \A g \in 1..Len(gs) : pid \notin gs[g].members

\* the snapshot of a browser without parent (pid 1), its renderer (pid 2)
\* and a utility process whose parent is not in the snapshot (pid 3): one
\* group, rooted at pid 1, of the pids 1 and 2
C18_Witness ==
    /\ Built
    /\ input = << ClassifiedRecord(1, NullPid, "Browser"),
                  ClassifiedRecord(2, 1, "Renderer"),
                  ClassifiedRecord(3, MaxPids + 1, "Utility") >>
    /\ output.groups = << [root_pid |-> 1, members |-> {1, 2}] >>

\* C19: the walk ends for every snapshot, a cyclic parent graph included:
\* no walk takes more steps than the snapshot has records, and a record on a
\* cycle without Browser-role record is in no group.
C19_WalkBounded ==
    Built =>
        /\ \A pid \in SnapshotPids(input) : output.steps[pid] <= Len(input)
        /\ \A pid \in SnapshotPids(input) :
               OnBrowserlessCycle(input, pid)
                   => \A g \in 1..Len(output.groups) : pid \notin output.groups[g].members

\* the pids 2 and 3 are each other's parent and no browser: their walks
\* stopped at the bound and the only group is the browser pid 1
C19_Witness ==
    /\ Built
    /\ input = << ClassifiedRecord(1, NullPid, "Browser"),
                  ClassifiedRecord(2, 3, "Renderer"),
                  ClassifiedRecord(3, 2, "Renderer") >>
    /\ output.steps[2] = Len(input) /\ output.steps[3] = Len(input)
    /\ output.groups = << [root_pid |-> 1, members |-> {1}] >>

----------------------------------------------------------------------------
(* Properties of the classifier *)

Roles == {"Browser", "Renderer", "Extension", "GPU", "Crashpad", "Utility", "Unknown"}
Channels == {"Stable", "Beta", "Dev", "Canary", "Internal", "Unknown"}
InstanceTypes == {"Stable", "Beta", "Dev", "Canary", "Internal", "WebView2", "Copilot"}

\* the type tokens a command line declares
TypeTokens(args) ==
    { args[i].val : i \in { j \in 1..Len(args) : args[j].key = "--type" /\ args[j].eq } }

KnownTokens == {"renderer", "extension", "gpu-process", "crashpad-handler", "utility"}

----------------------------------------------------------------------------
(* Properties of the timer, the filters and the remaining frame conditions *)

\* C21: timer-driven refreshes start only while auto-refresh is enabled and
\* the view is mounted: whatever the sequence of switching auto-refresh and
\* of mounting and unmounting the view, at most one interval is live at a
\* time, an interval is live only while the switch is on and the view is
\* mounted, and a tick starts a refresh only then.
C21_TimerOnlyWhileEnabledAndMounted ==
    /\ [](Cardinality(timers) <= 1)
    /\ [](timers # {} => autoRefresh /\ mounted)
    /\ [][StartStep("timer") => autoRefresh /\ mounted]_vars

\* the switch was on, a tick has started a refresh, and the view has since
\* been unmounted and mounted again with the switch off: no interval is live
C21_Witness ==
    /\ mounted /\ ~autoRefresh /\ timers = {}
    /\ \E n \in 1..Len(cycles) : cycles[n].trigger = "timer"
    /\ \E n \in 2..Len(cycles) : cycles[n].trigger = "mount"

----------------------------------------------------------------------------
(* The channel filters: the buttons of lines 280-308 and the filter of the  *)
(* render, line 331.  The published list is any list of at most MaxGroups   *)
(* groups; localStorage holds no preference or one an earlier session saved. *)

ALL_INSTANCE_TYPES == <<"Stable", "Beta", "Dev", "Canary", "Internal", "WebView2", "Copilot">>

\* localStorage.getItem: null, or the JSON array saved last
NoItem == [present |-> FALSE, items |-> <<>>]

\* new Set(JSON.parse(raw)) when there is an item, else the default
loadHiddenTypes(raw) ==
    IF raw.present THEN { raw.items[i] : i \in 1..Len(raw.items) } ELSE {"WebView2"}

\* JSON.stringify([...hidden]): the set as an array; the load reads no more
\* of it than its elements, so they are written in the order of the buttons
saveHiddenTypes(hidden) ==
    [present |-> TRUE, items |-> SelectSeq(ALL_INSTANCE_TYPES, LAMBDA t : t \in hidden)]

\* the predicate of the count of a filter button, line 283
CountsUnder(type, group) ==
    \/ getGroupLabel(group) = type
    \/ /\ type = "Stable"
       /\ getGroupLabel(group) \notin {"Beta", "Dev", "Canary", "Internal", "WebView2", "Copilot"}

\* the channel and instance type of a group as the backend pairs them
GroupKinds ==
    { <<"Stable", "Stable">>, <<"Beta", "Beta">>, <<"Dev", "Dev">>, <<"Canary", "Canary">>,
      <<"Internal", "Internal">>, <<"Unknown", "Stable">>,
      <<"Stable", "WebView2">>, <<"Unknown", "WebView2">>, <<"Unknown", "Copilot">> }

\* a list of groups of the given kinds, rooted at the pids 1, 2, ...
FilterList(kinds) ==
    [g \in 1..Len(kinds) |->
        ProcessGroup(g, kinds[g][1], kinds[g][2], <<RootProc(g, "Browser", "none")>>)]

InitFilter ==
    /\ \E n \in 0..MaxGroups : \E kinds \in [1..n -> GroupKinds] : groups = FilterList(kinds)
    /\ loading = FALSE
    /\ expandedGroups = AutoExpand(groups)
    /\ statusMsg = ""
    /\ autoRefresh = FALSE
    /\ input \in {NoItem, saveHiddenTypes({}), saveHiddenTypes({"Stable", "WebView2"})}
    /\ hiddenTypes = loadHiddenTypes(input)
    /\ intervalRef = 0
    /\ timers = {}
    /\ cycles = <<[NewCycle(TRUE, "mount") EXCEPT !.pc = "done",
                                                  !.events = Append(SnapshotOkEvents, "patch")]>>
    /\ termPending = <<>>
    /\ timeouts = 0
    /\ nTerm = 0
    /\ lastWrite = "patch"
    /\ answer = NoAnswer
    /\ built = groups
    /\ dropped = {}
    /\ before = <<>>
    /\ output = <<>>
    /\ mounted = TRUE
    /\ repos = <<>>

\* a filter button: the updater of setHiddenTypes, which saves what it returns
ToggleHidden(type) ==
    /\ mounted /\ ~loading
    /\ hiddenTypes' = IF type \in hiddenTypes THEN hiddenTypes \ {type}
                      ELSE hiddenTypes \cup {type}
    /\ input' = saveHiddenTypes(hiddenTypes')
    /\ UNCHANGED <<groups, loading, expandedGroups, statusMsg, autoRefresh,
                   intervalRef, timers, cycles, termPending, timeouts, nTerm, hist, answer,
                   before, output, mounted, repos>>

NextFilter == \E i \in 1..Len(ALL_INSTANCE_TYPES) : ToggleHidden(ALL_INSTANCE_TYPES[i])

SpecFilter == InitFilter /\ [][NextFilter]_vars

\* the filter type the claim gives a group: its label, or Stable
FilterTypeOf(group) ==
    IF getGroupLabel(group) \in {"Beta", "Dev", "Canary", "Internal", "WebView2", "Copilot"}
    THEN getGroupLabel(group)
    ELSE "Stable"

\* C22: with no stored preference only WebView2 is hidden; a click on a
\* filter button flips the hidden state of its type and of no other; every
\* group is counted under exactly one filter type, its label or Stable when
\* the label is none of the six others, and has a header on screen if and
\* only if that type is not hidden.
C22_ChannelFilters ==
    /\ [](input = NoItem => hiddenTypes = {"WebView2"})
    /\ [](\A g \in 1..Len(groups) :
            /\ { t \in InstanceTypes : CountsUnder(t, groups[g]) } = {FilterTypeOf(groups[g])}
            /\ g \in ShownGroups <=> FilterTypeOf(groups[g]) \notin hiddenTypes)
    /\ [][\A t \in InstanceTypes :
            ToggleHidden(t) =>
                /\ t \in hiddenTypes' <=> t \notin hiddenTypes
                /\ \A u \in InstanceTypes \ {t} : u \in hiddenTypes' <=> u \in hiddenTypes]_vars

\* a group of an unknown channel is counted under Stable and hidden with it,
\* next to a shown WebView2 group, after WebView2 was toggled to shown
C22_Witness ==
    /\ hiddenTypes = {"Stable"}
    /\ input = saveHiddenTypes({"Stable"})
    /\ Len(groups) = 2
    /\ getGroupLabel(groups[1]) = "Unknown" /\ 1 \notin ShownGroups
    /\ getGroupLabel(groups[2]) = "WebView2" /\ 2 \in ShownGroups
    /\ { g \in 1..2 : CountsUnder("Stable", groups[g]) } = {1}
    /\ { g \in 1..2 : CountsUnder("WebView2", groups[g]) } = {2}

----------------------------------------------------------------------------
(* The repositories view (src/src/tabs/ReposTab.tsx): the lazy load of a    *)
(* repository's full info.  `repos` holds repoStates (the fields the load   *)
(* reads and writes), the setTimeout(..., 0) callbacks not yet run, and the *)
(* get_repo_info and get_repo_branch requests in flight, each by request    *)
(* order; `last` is the handler that ran last.                              *)

RepoPaths == {"r1", "r2"}

\* the fields of RepoState the load decides on
RepoState(isExpanded, isFullLoaded, isLoading) ==
    [expanded |-> isExpanded, fullLoaded |-> isFullLoaded, loading |-> isLoading]

\* the repositories tab is selected and loadRepoList has called loadRepoInfo
\* for each path: line 95, then lines 103-117
InitRepos ==
    /\ groups = <<>>
    /\ loading = TRUE
    /\ expandedGroups = {}
    /\ statusMsg = ""
    /\ autoRefresh = FALSE
    /\ hiddenTypes = {"WebView2"}
    /\ intervalRef = 0
    /\ timers = {}
    /\ cycles = <<>>
    /\ termPending = <<>>
    /\ timeouts = 0
    /\ nTerm = 0
    /\ lastWrite = "none"
    /\ answer = NoAnswer
    /\ built = <<>>
    /\ dropped = {}
    /\ before = <<>>
    /\ input = <<>>
    /\ output = <<>>
    /\ mounted = FALSE
    /\ repos = [state |-> [r \in RepoPaths |-> RepoState(FALSE, FALSE, TRUE)],
                scheduled |-> <<>>,
                full |-> <<>>,
                branch |-> <<"r1", "r2">>,
                loads |-> 0,
                last |-> <<"loadRepoList", "">>]

\* variant: every expansion requests the full info
toggleRepoAlwaysLoads(repoPath) ==
    LET state == repos.state[repoPath]
        willExpand == ~state.expanded
    IN /\ willExpand => repos.loads < MaxLoads
       /\ repos' = [repos EXCEPT
              !.state[repoPath].expanded = willExpand,
              !.scheduled = IF willExpand THEN Append(@, repoPath) ELSE @,
              !.loads = IF willExpand THEN @ + 1 ELSE @,
              !.last = <<"toggleRepo", repoPath>>]
       /\ UNCHANGED <<groups, loading, expandedGroups, statusMsg, autoRefresh, hiddenTypes,
                   intervalRef, timers, cycles, termPending, timeouts, nTerm, hist, answer,
                   before, pure, mounted>>

\* toggleRepo(repoPath), lines 199-213: the header of a repository is clicked
toggleRepo(repoPath) ==
    LET state == repos.state[repoPath]
        willExpand == ~state.expanded
        load == willExpand /\ ~state.fullLoaded
    IN /\ load => repos.loads < MaxLoads
       /\ repos' = [repos EXCEPT
              !.state[repoPath].expanded = willExpand,
              !.scheduled = IF load THEN Append(@, repoPath) ELSE @,
              !.loads = IF load THEN @ + 1 ELSE @,
              !.last = <<"toggleRepo", repoPath>>]
       /\ UNCHANGED <<groups, loading, expandedGroups, statusMsg, autoRefresh, hiddenTypes,
                   intervalRef, timers, cycles, termPending, timeouts, nTerm, hist, answer,
                   before, pure, mounted>>

\* the callback of setTimeout(() => loadFullRepoInfo(repoPath), 0) runs:
\* loadFullRepoInfo up to its await of get_repo_info, lines 155-165
loadFullRepoInfo ==
    /\ repos.scheduled # <<>>
    /\ LET repoPath == Head(repos.scheduled)
       IN repos' = [repos EXCEPT
              !.state[repoPath].loading = TRUE,
              !.scheduled = Tail(@),
              !.full = Append(@, repoPath),
              !.last = <<"loadFullRepoInfo", repoPath>>]
    /\ UNCHANGED <<groups, loading, expandedGroups, statusMsg, autoRefresh, hiddenTypes,
                   intervalRef, timers, cycles, termPending, timeouts, nTerm, hist, answer,
                   before, pure, mounted>>

\* get_repo_info resolves: lines 166-179
LoadFullOk(i) ==
    /\ repos' = [repos EXCEPT
           !.state[repos.full[i]] = RepoState(TRUE, TRUE, FALSE),
           !.full = Without(@, i),
           !.last = <<"LoadFullOk", repos.full[i]>>]
    /\ UNCHANGED <<groups, loading, expandedGroups, statusMsg, autoRefresh, hiddenTypes,
                   intervalRef, timers, cycles, termPending, timeouts, nTerm, hist, answer,
                   before, pure, mounted>>

\* get_repo_info rejects: lines 180-195
LoadFullFail(i) ==
    /\ repos' = [repos EXCEPT
           !.state[repos.full[i]] = RepoState(TRUE, FALSE, FALSE),
           !.full = Without(@, i),
           !.last = <<"LoadFullFail", repos.full[i]>>]
    /\ UNCHANGED <<groups, loading, expandedGroups, statusMsg, autoRefresh, hiddenTypes,
                   intervalRef, timers, cycles, termPending, timeouts, nTerm, hist, answer,
                   before, pure, mounted>>

\* the Refresh button of a repository: loadRepoInfo up to its await of
\* get_repo_branch, lines 103-117
loadRepoInfo(repoPath) ==
    /\ repos.loads < MaxLoads
    /\ repos' = [repos EXCEPT
           !.state[repoPath] = RepoState(@.expanded, FALSE, TRUE),
           !.branch = Append(@, repoPath),
           !.loads = @ + 1,
           !.last = <<"loadRepoInfo", repoPath>>]
    /\ UNCHANGED <<groups, loading, expandedGroups, statusMsg, autoRefresh, hiddenTypes,
                   intervalRef, timers, cycles, termPending, timeouts, nTerm, hist, answer,
                   before, pure, mounted>>

\* get_repo_branch resolves: lines 120-135
LoadRepoOk(i) ==
    /\ repos' = [repos EXCEPT
           !.state[repos.branch[i]] = RepoState(@.expanded, FALSE, FALSE),
           !.branch = Without(@, i),
           !.last = <<"LoadRepoOk", repos.branch[i]>>]
    /\ UNCHANGED <<groups, loading, expandedGroups, statusMsg, autoRefresh, hiddenTypes,
                   intervalRef, timers, cycles, termPending, timeouts, nTerm, hist, answer,
                   before, pure, mounted>>

\* get_repo_branch rejects: lines 136-150
LoadRepoFail(i) ==
    /\ repos' = [repos EXCEPT
           !.state[repos.branch[i]] = RepoState(FALSE, FALSE, FALSE),
           !.branch = Without(@, i),
           !.last = <<"LoadRepoFail", repos.branch[i]>>]
    /\ UNCHANGED <<groups, loading, expandedGroups, statusMsg, autoRefresh, hiddenTypes,
                   intervalRef, timers, cycles, termPending, timeouts, nTerm, hist, answer,
                   before, pure, mounted>>

NextRepos ==
    \/ \E repoPath \in RepoPaths : toggleRepo(repoPath)
    \/ loadFullRepoInfo
    \/ \E i \in 1..Len(repos.full) : LoadFullOk(i)
    \/ \E i \in 1..Len(repos.full) : LoadFullFail(i)
    \/ \E repoPath \in RepoPaths : loadRepoInfo(repoPath)
    \/ \E i \in 1..Len(repos.branch) : LoadRepoOk(i)
    \/ \E i \in 1..Len(repos.branch) : LoadRepoFail(i)

SpecRepos == InitRepos /\ [][NextRepos]_vars

\* the handler named ran on the repository in this step
RepoStep(handler, repoPath) == repos' # repos /\ repos'.last = <<handler, repoPath>>

\* the step has scheduled one more loadFullRepoInfo, for the repository
RequestsFullInfo(repoPath) == repos'.scheduled = Append(repos.scheduled, repoPath)

----------------------------------------------------------------------------
(* Frame conditions of the refresh cycle *)

\* C24: the list a successful refresh publishes is the list just built with
\* nothing but url and target type possibly replaced: the same groups in
\* the same order, each with its members in the same order and every other
\* field as built; and a record whose pid held no url in the list replaced
\* is published, at its place, exactly as built.
C24_PublishIsBuiltPlusUrls ==
    [][\A n \in 1..Len(cycles) :
          SnapshotOkStep(n) =>
              /\ Strip(groups') = Strip(built')
              /\ \A g \in 1..Len(built') : \A i \in 1..Len(built'[g].processes) :
                     built'[g].processes[i].pid \notin UrlPids(groups)
                         => groups'[g].processes[i] = built'[g].processes[i]]_vars

\* pid 2 held a url as a member of the first group and is published, with
\* the url, as a member of the second group with the fields just built
C24_Witness ==
    /\ lastWrite = "publish"
    /\ Len(groups) = 2
    /\ groups # built /\ Strip(groups) = Strip(built)
    /\ \E i \in 1..Len(groups[2].processes) :
           /\ groups[2].processes[i].pid = 2
           /\ groups[2].processes[i].url # ""
           /\ groups[2].processes[i].memory_mb = 20
    /\ groups[1] = built[1]

\* C25: a refresh that shows the busy flag clears it when its snapshot
\* request settles, with a result or with an error, while the correlator of
\* the cycle has not answered or was never asked; and since the request
\* does settle, a raised busy flag is always cleared later.
C25_BusyCleared ==
    /\ [][\A n \in 1..Len(cycles) :
             (cycles[n].showLoading /\ (SnapshotOkStep(n) \/ SnapshotFailStep(n)))
                 => /\ ~loading'
                    /\ cycles'[n].pc \in {"cdp", "snapfail"}
                    /\ "patch" \notin { cycles'[n].events[i] : i \in 1..Len(cycles'[n].events) }]_vars
    /\ [](loading => <>(~loading))

\* a manual refresh has published, its correlator has not answered, and the
\* busy flag is down
C25_Witness ==
    \E n \in 1..Len(cycles) :
        /\ cycles[n].trigger = "manual"
        /\ cycles[n].pc = "cdp"
        /\ ~loading

\* C26: groups are expanded automatically on the first load only: a refresh
\* other than the one of the mount does not expand a group that is in the
\* list and collapsed, and a refresh started by the timer leaves the set of
\* expanded groups as it is.
C26_AutoExpandFirstLoadOnly ==
    [][\A n \in 1..Len(cycles) :
          SnapshotOkStep(n) =>
              /\ cycles[n].trigger = "timer" => expandedGroups' = expandedGroups
              /\ cycles[n].trigger # "mount" =>
                     \A g \in 1..Len(groups) :
                         groups[g].browser_pid \notin expandedGroups
                             => groups[g].browser_pid \notin expandedGroups']_vars

\* C28: the published list comes from the latest-started cycle that has
\* published: the snapshot of a cycle does not replace the list once a cycle
\* started later has published its own.
C28_LatestStartedPublishes ==
    [][\A n \in 1..Len(cycles) :
          (SnapshotOkStep(n) /\ \E m \in (n + 1)..Len(cycles) : Published(m))
              => groups' = groups]_vars

\* C29: correlation results take effect in the order of their cycles: when
\* every answer applied so far was requested by a cycle started after cycle
\* m, the answer of cycle m leaves every url and target type in the list as
\* it is.
C29_ResultsInCycleOrder ==
    [][\A m \in 1..Len(cycles) :
          ( /\ CdpOkStep(m)
            /\ \E n \in (m + 1)..Len(cycles) : cycles[n].pc = "done"
            /\ \A k \in 1..(m - 1) : cycles[k].pc # "done" )
              => \A pid \in UrlPids(groups) :
                     /\ ProcOf(groups', pid).url = ProcOf(groups, pid).url
                     /\ ProcOf(groups', pid).cdp_target_type
                            = ProcOf(groups, pid).cdp_target_type]_vars

\* C27: terminate is a pass-through keyed by pid. The request carries the
\* pid of a row on screen and changes nothing in the view. When it succeeds
\* the status message is its result and one more refresh is scheduled;
\* when it fails the status message is the error text and none is; neither
\* changes the list, the cycles or the busy flag. The scheduled refresh,
\* when it starts, is a refresh without busy flag, and only its publication
\* changes the list.
C27_TerminatePassThrough ==
    [][/\ Len(termPending') = Len(termPending) + 1 =>
              /\ \E pid \in ActionPids : termPending' = Append(termPending, pid)
              /\ UNCHANGED <<groups, statusMsg, timeouts, cycles, loading>>
       /\ Len(termPending') = Len(termPending) - 1 =>
              /\ UNCHANGED <<groups, cycles, loading, expandedGroups>>
              /\ \/ statusMsg' \in TerminateResults /\ timeouts' = timeouts + 1
                 \/ /\ statusMsg' \in { "Error: " \o err : err \in TerminateErrors }
                    /\ timeouts' = timeouts
       /\ StartStep("timeout") =>
              /\ timeouts' = timeouts - 1
              /\ ~cycles'[Len(cycles')].showLoading
              /\ UNCHANGED <<groups, loading, statusMsg>>
       /\ timeouts' > timeouts => Len(termPending') = Len(termPending) - 1]_vars

\* a terminate request has succeeded, its result is shown, and the one
\* refresh it scheduled has started without busy flag and has published
C27_Witness ==
    /\ statusMsg \in TerminateResults
    /\ nTerm = 1 /\ termPending = <<>> /\ timeouts = 0
    /\ ~loading
    /\ \E n \in 1..Len(cycles) :
           /\ cycles[n].trigger = "timeout" /\ ~cycles[n].showLoading
           /\ cycles[n].pc = "cdp"

\* every member with an entry for its pid, in a group whose port has data,
\* already holds the values of the entry
NothingDiffers(list, portMap) ==
    \A g \in 1..Len(list) :
        GroupPort(list[g]) \in DOMAIN portMap =>
            \A i \in 1..Len(list[g].processes) :
                LET pages == portMap[GroupPort(list[g])]
                    k == FirstEntryFor(pages, list[g].processes[i].pid)
                IN k # 0 => Carries(list, g, i, pages[k])

\* C30: applying an answer is a no-op when nothing differs and is
\* idempotent: when every member already holds the values of its entry the
\* list stays as it is and the updater hands back the list it was given;
\* the updater hands back a new list exactly when the list changes; and
\* applying the same answer to the patched list gives the patched list.
C30_PatchIdempotent ==
    [][\A n \in 1..Len(cycles) :
          CdpOkStep(n) =>
              /\ NothingDiffers(groups, answer')
                     => (groups' = groups /\ ~Changed(groups, answer'))
              /\ Changed(groups, answer') <=> groups' # groups
              /\ ApplyCdp(groups', answer') = groups'
              /\ ~Changed(groups', answer')]_vars

\* an answer whose entry for pid 2 holds what pid 2 already held was
\* applied, and the list is the one it was applied to
C30_Witness ==
    /\ cycles[1].pc = "done"
    /\ groups = before
    /\ 2 \in UrlPids(groups)
    /\ \E port \in DOMAIN answer :
          /\ \E g \in 1..Len(groups) :
                 /\ GroupPort(groups[g]) = port
                 /\ \E i \in 1..Len(groups[g].processes) : groups[g].processes[i].pid = 2
          /\ FirstEntryFor(answer[port], 2) # 0
          /\ answer[port][FirstEntryFor(answer[port], 2)].url = ProcOf(groups, 2).url
          /\ OrEmpty(answer[port][FirstEntryFor(answer[port], 2)].target_type)
                 = ProcOf(groups, 2).cdp_target_type


====
